---- MODULE Spec2Model ----
(***************************************************************************)
(* Model of src/epanet/app/epanet.py: the EPANET / Modbus bridge.          *)
(*                                                                         *)
(* One process, main(), is modelled as a program counter over the calls    *)
(* it makes into its two collaborators (the pymodbus client and the epyt   *)
(* engine).  Every such call has an outcome chosen by the environment:     *)
(* it returns ("ok"), it raises an Exception ("exc"), or a SIGINT arrives  *)
(* while it runs and Python raises KeyboardInterrupt out of it ("kbi").    *)
(* The helpers' `except Exception: print; sys.exit(1)` blocks, main's      *)
(* `except KeyboardInterrupt` / `except Exception` / `finally` are         *)
(* modelled by what Python does with them: SystemExit and                  *)
(* KeyboardInterrupt are not Exceptions, so a helper's sys.exit(1) passes  *)
(* through main's handlers into `finally`, and a KeyboardInterrupt passes  *)
(* through a helper's handler into main's.                                 *)
(***************************************************************************)
EXTENDS Integers, Sequences, FiniteSets, TLC

(***************************************************************************)
(* Bounds of the model.                                                    *)
(***************************************************************************)
MaxCycles == 2          \* Running cycles explored
MaxConnectFails == 2    \* connect() attempts that return False
ShortRead == 1          \* length of a truncated coil / register response

(***************************************************************************)
(* Program constants.                                                      *)
(***************************************************************************)
CoilCount == 100        \* read_coils(0, 100)
RegCount == 100         \* read_holding_registers(0, 100)
SettingScale == 100     \* i / 100.0
JunctionBase == 100     \* 100 + i * 2
TankBase == 200         \* 200 + i * 2
PumpBase == 300         \* 300 + i * 2
Stride == 2             \* i * 2 : one FLOAT32 is two registers
InitialDuration == 10   \* en.setTimeSimulationDuration(10)
HydraulicStep == 1      \* en.setTimeHydraulicStep(1)
HelperExitStatus == 1   \* sys.exit(1) in every helper's except block
MainExitStatus == 1     \* sys.exit(1) in main's except Exception
InterruptExitStatus == 0 \* sys.exit(0) in main's except KeyboardInterrupt

\* Exit status of an interpreter ended by an uncaught exception (traceback)
\* and by an uncaught KeyboardInterrupt (128 + SIGINT).
TracebackStatus == 1
SigintStatus == 130
\* exitCode before any sys.exit has been called
NoExit == -1

Min(a, b) == IF a < b THEN a ELSE b

(***************************************************************************)
(* Messages printed by the handlers.                                       *)
(***************************************************************************)
MsgUsage == "usage"
MsgSetupClient == "Failed to setup and establish a Modbus TCP client connection"
MsgSetupEpanet == "Failed to setup EPANET with specified network (.inp) file"
MsgOverview == "Failed to print overview"
MsgGetControls == "Failed to get controls from OpenPLC"
MsgSetControls == "Failed to set OpenPLC controls to EPANET network"
MsgReadData == "Failed to read data from EPANET network"
MsgWriteData == "Failed to write EPANET network data to OpenPLC"
MsgUnexpected == "Failed to run EPANET simulation due to an unexpected error"
MsgInterrupted == ">--- Program interrupted by user ---"
MsgTraceback == "Traceback"

(***************************************************************************)
(* Networks the engine may have loaded: asset counts per class.  The       *)
(* second has one junction more than fits below the tank block's base, the *)
(* third more pipes than one coil response carries.                        *)
(***************************************************************************)
Networks ==
    { [junctions |-> 1, tanks |-> 1, pumps |-> 2, pipes |-> 2],
      [junctions |-> 51, tanks |-> 1, pumps |-> 1, pipes |-> 1],
      [junctions |-> 1, tanks |-> 0, pumps |-> 1, pipes |-> 105] }

(***************************************************************************)
(* What the controller answers to the two control reads.  pymodbus unpacks *)
(* a coil response byte by byte, so 100 coils come back as 104 bits.       *)
(***************************************************************************)
CoilBits(n) == ((n + 7) \div 8) * 8

CoilBlock(p, n) ==
    [i \in 1..n |-> IF p = "zeros" THEN 0 ELSE i % 2]

RegBlock(p, n) ==
    [i \in 1..n |->
        CASE p = "alt" -> IF i % 2 = 1 THEN 150 ELSE 50
          [] p = "extreme" -> IF i % 2 = 1 THEN 65535 ELSE 0]

CoilBlocks ==
    { CoilBlock("zeros", CoilBits(CoilCount)),
      CoilBlock("alt", CoilBits(CoilCount)),
      CoilBlock("alt", ShortRead) }

RegBlocks ==
    { RegBlock("alt", RegCount),
      RegBlock("extreme", RegCount),
      RegBlock("alt", ShortRead) }

(***************************************************************************)
(* RegisterMap: decoding of controls (get_controls), addresses and         *)
(* encoding of telemetry (write_data).                                     *)
(***************************************************************************)
\* the coil bit taken as the status, without i ^ 1
DecodeStatusPlain(bit) == bit

\* i ^ 1 on a coil bit
DecodeStatus(bit) == IF bit = 1 THEN 0 ELSE 1

\* i / 100.0 on an unsigned 16-bit register, kept as a decimal with two
\* fractional digits: whole part and hundredths
DecodeSetting(raw) == [whole |-> raw \div SettingScale, hundredths |-> raw % SettingScale]

DecodeCoils(bits) == [i \in 1..Len(bits) |-> DecodeStatus(bits[i])]

DecodeRegisters(registers) == [i \in 1..Len(registers) |-> DecodeSetting(registers[i])]

JunctionAddress(i) == JunctionBase + i * Stride
TankAddress(i) == TankBase + i * Stride
PumpAddress(i) == PumpBase + i * Stride

\* client.convert_to_registers(value, FLOAT32): the 32-bit pattern of the
\* value as two 16-bit words, high word first
ConvertToRegisters(f32) == << f32 \div 65536, f32 % 65536 >>

(***************************************************************************)
(* The engine's measurements, as float32 bit patterns: one value per       *)
(* quantity class, asset position (0-based) and solved cycle.              *)
(***************************************************************************)
ClassNo(class) == CASE class = "junction" -> 1 [] class = "tank" -> 2 [] class = "pump" -> 3

Measurement(class, i, c) == ClassNo(class) * 16777216 + (i + 1) * 4096 + c

VARIABLES
    pc,               \* the call main() is about to make
    argvOk,           \* len(sys.argv) == 2 and sys.argv[1].endswith('.inp')
    net,              \* asset counts of the network file
    clientBound,      \* 'client' in locals()
    enBound,          \* 'en' in locals()
    link,             \* link state of the Modbus client
    connectAttempts,  \* client.connect() calls made
    connectFails,     \* client.connect() calls that returned False
    backoffs,         \* time.sleep(1) calls completed in setup_client
    lastConnect,      \* outcome of the latest client.connect()
    analysis,         \* engine analysis: "none", "open", "init", "closed"
    duration,         \* en.getTimeSimulationDuration()
    simTime,          \* simulated time elapsed in the engine
    cycle,            \* Running cycles started
    idx,              \* loop variable of the for loop being executed
    raw,              \* the coil bits and registers last read
    pending,          \* get_controls: the pipe statuses decoded so far
    controls,         \* the ControlFrame get_controls returned
    data,             \* the TelemetryFrame of this cycle
    pipeSet,          \* engine: per pipe, status and the cycle that set it
    pumpSet,          \* engine: per pump, setting and the cycle that set it
    solved,           \* engine: cycle whose hydraulics were solved last
    ops,              \* calls completed in this cycle, per kind
    regs,             \* controller: holding registers written so far
    wrote,            \* addresses written so far, per quantity class
    exitCode,         \* status passed to sys.exit / interpreter exit status
    out,              \* messages printed by the handlers
    raisedAt,         \* the call whose raise ended the try block
    raised,           \* what it raised: "exc", "kbi", or "usage" for a bad argv
    released          \* calls made by the finally block, per kind

vars == << pc, argvOk, net, clientBound, enBound, link, connectAttempts,
           connectFails, backoffs, lastConnect, analysis, duration, simTime,
           cycle, idx, pending, controls, data, pipeSet, pumpSet, solved, ops, regs,
           wrote, exitCode, out, raisedAt, raised, raw, released >>

linkVars == << link, connectAttempts, connectFails, backoffs, lastConnect >>
engineVars == << analysis, duration, simTime, pipeSet, pumpSet, solved >>
frameVars == << raw, pending, controls, data >>
exitVars == << exitCode, out, raisedAt, raised >>
wireVars == << regs, wrote >>

(***************************************************************************)
(* Addresses a telemetry write of asset position i (0-based) touches, and  *)
(* all addresses the loaded network can touch.                             *)
(***************************************************************************)
Pair(base) == {base, base + 1}

ClassAddress(class, i) ==
    CASE class = "junction" -> JunctionAddress(i)
      [] class = "tank" -> TankAddress(i)
      [] class = "pump" -> PumpAddress(i)

Addresses(n) ==
    UNION ( { Pair(JunctionAddress(i)) : i \in 0..(n.junctions - 1) }
            \cup { Pair(TankAddress(i)) : i \in 0..(n.tanks - 1) }
            \cup { Pair(PumpAddress(i)) : i \in 0..(n.pumps - 1) } )

NoOps == [ctl |-> 0, step |-> 0, tread |-> 0, twrite |-> 0]
NoFrame == << >>

Init ==
    /\ pc = "parse_arguments"
    /\ argvOk \in BOOLEAN
    /\ net \in Networks
    /\ clientBound = FALSE
    /\ enBound = FALSE
    /\ link = "Disconnected"
    /\ connectAttempts = 0
    /\ connectFails = 0
    /\ backoffs = 0
    /\ lastConnect = "none"
    /\ analysis = "none"
    /\ duration = 0
    /\ simTime = 0
    /\ cycle = 0
    /\ idx = 0
    /\ raw = [bits |-> NoFrame, registers |-> NoFrame]
    /\ pending = NoFrame
    /\ controls = [pipe_statuses |-> NoFrame, pump_settings |-> NoFrame]
    /\ data = [junction_pressures |-> NoFrame, tank_heads |-> NoFrame, pump_flows |-> NoFrame]
    /\ pipeSet = [k \in 1..net.pipes |-> [v |-> 1, c |-> 0]]
    /\ pumpSet = [k \in 1..net.pumps |-> [v |-> DecodeSetting(100), c |-> 0]]
    /\ solved = 0
    /\ ops = NoOps
    /\ regs = [a \in Addresses(net) |-> 0]
    /\ wrote = [junction |-> {}, tank |-> {}, pump |-> {}]
    /\ exitCode = NoExit
    /\ out = << >>
    /\ raisedAt = "none"
    /\ raised = "none"
    /\ released = [close |-> 0, closeH |-> 0, unload |-> 0]

(***************************************************************************)
(* Exception handling of main().                                           *)
(***************************************************************************)
\* main's finally: the first release call it makes, given what is bound
\* the finally block with its two if statements exchanged
FinallyEngineFirst(cb, eb) ==
    IF eb THEN "closeHydraulicAnalysis"
    ELSE IF cb THEN "client.close"
    ELSE "stopped"

Finally(cb, eb) ==
    IF cb THEN "client.close"
    ELSE IF eb THEN "closeHydraulicAnalysis"
    ELSE "stopped"

\* every handler exiting with status 0
ExitStatusClean(o, msg) == InterruptExitStatus

\* helpers catching BaseException: a KeyboardInterrupt raised inside a
\* helper ends in that helper's sys.exit(1)
ExitStatusBareExcept(o, msg) ==
    IF msg = MsgUnexpected
    THEN (IF o = "kbi" THEN InterruptExitStatus ELSE MainExitStatus)
    ELSE HelperExitStatus

\* status a raise inside the try block ends in: KeyboardInterrupt reaches
\* main's handler from anywhere; an Exception is handled by the helper it
\* was raised in, or by main when raised at main's own level
ExitStatus(o, msg) ==
    IF o = "kbi" THEN InterruptExitStatus
    ELSE IF msg = MsgUnexpected THEN MainExitStatus
    ELSE HelperExitStatus

\* print_overview's handler printing without sys.exit(1): main carries on
RaiseOverviewCarriesOn(o, msg) ==
    /\ o \in {"exc", "kbi"}
    /\ out' = Append(out, IF o = "kbi" THEN MsgInterrupted ELSE msg)
    /\ raisedAt' = pc
    /\ raised' = o
    /\ IF o = "exc" /\ msg = MsgOverview
       THEN pc' = "openHydraulicAnalysis" /\ UNCHANGED exitCode
       ELSE pc' = Finally(clientBound, enBound) /\ exitCode' = ExitStatus(o, msg)

\* write_data's handler printing without sys.exit(1): the cycle is skipped
RaiseWriteSkipsCycle(o, msg) ==
    /\ o \in {"exc", "kbi"}
    /\ out' = Append(out, IF o = "kbi" THEN MsgInterrupted ELSE msg)
    /\ raisedAt' = pc
    /\ raised' = o
    /\ IF o = "exc" /\ msg = MsgWriteData
       THEN pc' = "nextHydraulicAnalysisStep" /\ UNCHANGED exitCode
       ELSE pc' = Finally(clientBound, enBound) /\ exitCode' = ExitStatus(o, msg)

\* get_controls' handler going back to connect instead of sys.exit(1)
RaiseReconnects(o, msg) ==
    /\ o \in {"exc", "kbi"}
    /\ out' = Append(out, IF o = "kbi" THEN MsgInterrupted ELSE msg)
    /\ raisedAt' = pc
    /\ IF o = "exc" /\ msg = MsgGetControls
       THEN pc' = "client.connect" /\ UNCHANGED << exitCode, raised >>
       ELSE /\ pc' = Finally(clientBound, enBound)
            /\ exitCode' = ExitStatus(o, msg)
            /\ raised' = o

\* a call inside main's try block raised: print, sys.exit, then finally
Raise(o, msg) ==
    /\ o \in {"exc", "kbi"}
    /\ out' = Append(out, IF o = "kbi" THEN MsgInterrupted ELSE msg)
    /\ exitCode' = ExitStatus(o, msg)
    /\ raisedAt' = pc
    /\ raised' = o
    /\ pc' = Finally(clientBound, enBound)

\* a call inside the finally block raised: nothing catches it, the rest of
\* the block is skipped and the interpreter ends with a traceback
RaiseInFinally(o) ==
    /\ o \in {"exc", "kbi"}
    /\ out' = Append(out, MsgTraceback)
    /\ exitCode' = IF o = "kbi" THEN SigintStatus ELSE TracebackStatus
    /\ UNCHANGED << raisedAt, raised >>
    /\ pc' = "stopped"

(***************************************************************************)
(* Program order.                                                          *)
(***************************************************************************)
\* a retry loop without the sleep
AfterConnectNoBackoff(connected) ==
    IF connected THEN "setup_epanet" ELSE "client.connect"

\* the loop body with the solve before the controls are applied
CycleOrderSolveFirst ==
    << "setTimeSimulationDuration", "get_controls", "runHydraulicAnalysis",
       "set_controls", "read_data", "write_data",
       "nextHydraulicAnalysisStep", "time.sleep" >>

\* setup_client: what follows a client.connect() that returned `connected`
\* the loop body without en.nextHydraulicAnalysisStep()
CycleOrderNoAdvance ==
    << "setTimeSimulationDuration", "get_controls", "set_controls",
       "runHydraulicAnalysis", "read_data", "write_data", "time.sleep" >>

AfterConnect(connected) ==
    IF connected THEN "setup_epanet" ELSE "time.sleep.backoff"

\* the statements of the while True body, in program order
CycleOrder ==
    << "setTimeSimulationDuration", "get_controls", "set_controls",
       "runHydraulicAnalysis", "read_data", "write_data",
       "nextHydraulicAnalysisStep", "time.sleep" >>

\* the first call a statement of the loop body makes
Entry(stmt) ==
    CASE stmt = "get_controls" -> "read_coils"
      [] stmt = "set_controls" -> "setLinkStatus"
      [] stmt = "write_data" -> "write_registers.junction"
      [] OTHER -> stmt

\* where control goes when a statement of the loop body returns
After(stmt) ==
    LET k == CHOOSE i \in 1..Len(CycleOrder) : CycleOrder[i] = stmt
    IN  Entry(CycleOrder[(k % Len(CycleOrder)) + 1])

(***************************************************************************)
(* Starting.                                                               *)
(***************************************************************************)
parse_arguments ==
    /\ pc = "parse_arguments"
    /\ IF argvOk
       THEN /\ pc' = "client.connect"
            /\ UNCHANGED exitVars
       ELSE /\ pc' = "stopped"
            /\ exitCode' = HelperExitStatus
            /\ out' = Append(out, MsgUsage)
            /\ raisedAt' = pc
            /\ raised' = "usage"
    /\ UNCHANGED << argvOk, net, clientBound, enBound, linkVars, engineVars,
                    cycle, idx, frameVars, ops, wireVars, released >>

\* while not client.connect(): one attempt
setup_client_connect ==
    /\ pc = "client.connect"
    /\ \E o \in {"true", "false", "exc", "kbi"} :
         /\ o = "false" => connectFails < MaxConnectFails
         /\ connectAttempts' = connectAttempts + 1
         /\ lastConnect' = o
         /\ CASE o = "true" ->
                   /\ link' = "Connected"
                   /\ clientBound' = TRUE
                   /\ pc' = AfterConnect(TRUE)
                   /\ UNCHANGED << connectFails, exitVars >>
              [] o = "false" ->
                   /\ connectFails' = connectFails + 1
                   /\ pc' = AfterConnect(FALSE)
                   /\ UNCHANGED << link, clientBound, exitVars >>
              [] OTHER ->
                   /\ Raise(o, MsgSetupClient)
                   /\ UNCHANGED << link, clientBound, connectFails >>
    /\ UNCHANGED << argvOk, net, enBound, backoffs, engineVars, cycle, idx,
                    frameVars, ops, wireVars, released >>

\* time.sleep(1) between two attempts
setup_client_backoff ==
    /\ pc = "time.sleep.backoff"
    /\ \E o \in {"ok", "kbi"} :
         IF o = "ok"
         THEN /\ backoffs' = backoffs + 1
              /\ pc' = "client.connect"
              /\ UNCHANGED exitVars
         ELSE /\ Raise(o, MsgSetupClient)
              /\ UNCHANGED backoffs
    /\ UNCHANGED << argvOk, net, clientBound, enBound, link, connectAttempts,
                    connectFails, lastConnect, engineVars, cycle, idx,
                    frameVars, ops, wireVars, released >>

setup_epanet ==
    /\ pc = "setup_epanet"
    /\ \E o \in {"ok", "exc", "kbi"} :
         IF o = "ok"
         THEN /\ enBound' = TRUE
              /\ duration' = InitialDuration
              /\ pc' = "print_overview"
              /\ UNCHANGED exitVars
         ELSE /\ Raise(o, MsgSetupEpanet)
              /\ UNCHANGED << enBound, duration >>
    /\ UNCHANGED << argvOk, net, clientBound, linkVars, analysis, simTime,
                    pipeSet, pumpSet, solved, cycle, idx, frameVars, ops,
                    wireVars, released >>

print_overview ==
    /\ pc = "print_overview"
    /\ \E o \in {"ok", "exc", "kbi"} :
         IF o = "ok"
         THEN /\ pc' = "openHydraulicAnalysis"
              /\ UNCHANGED exitVars
         ELSE Raise(o, MsgOverview)
    /\ UNCHANGED << argvOk, net, clientBound, enBound, linkVars, engineVars,
                    cycle, idx, frameVars, ops, wireVars, released >>

openHydraulicAnalysis ==
    /\ pc = "openHydraulicAnalysis"
    /\ \E o \in {"ok", "exc", "kbi"} :
         IF o = "ok"
         THEN /\ analysis' = "open"
              /\ pc' = "initializeHydraulicAnalysis"
              /\ UNCHANGED exitVars
         ELSE /\ Raise(o, MsgUnexpected)
              /\ UNCHANGED analysis
    /\ UNCHANGED << argvOk, net, clientBound, enBound, linkVars, duration,
                    simTime, pipeSet, pumpSet, solved, cycle, idx, frameVars,
                    ops, wireVars, released >>

initializeHydraulicAnalysis ==
    /\ pc = "initializeHydraulicAnalysis"
    /\ \E o \in {"ok", "exc", "kbi"} :
         IF o = "ok"
         THEN /\ analysis' = "init"
              /\ pc' = Entry(CycleOrder[1])
              /\ UNCHANGED exitVars
         ELSE /\ Raise(o, MsgUnexpected)
              /\ UNCHANGED analysis
    /\ UNCHANGED << argvOk, net, clientBound, enBound, linkVars, duration,
                    simTime, pipeSet, pumpSet, solved, cycle, idx, frameVars,
                    ops, wireVars, released >>

(***************************************************************************)
(* Running: one cycle of the while True loop.                              *)
(***************************************************************************)
\* en.setTimeSimulationDuration(getTimeSimulationDuration() + getTimeHydraulicStep())
setTimeSimulationDuration ==
    /\ pc = "setTimeSimulationDuration"
    /\ cycle < MaxCycles
    /\ \E o \in {"ok", "exc", "kbi"} :
         IF o = "ok"
         THEN /\ duration' = duration + HydraulicStep
              /\ pc' = After("setTimeSimulationDuration")
              /\ UNCHANGED exitVars
         ELSE /\ Raise(o, MsgUnexpected)
              /\ UNCHANGED duration
    /\ cycle' = cycle + 1
    /\ ops' = NoOps
    /\ UNCHANGED << argvOk, net, clientBound, enBound, linkVars, analysis,
                    simTime, pipeSet, pumpSet, solved, idx, frameVars,
                    wireVars, released >>

\* [i ^ 1 for i in client.read_coils(0, 100).bits]
get_controls_read_coils ==
    /\ pc = "read_coils"
    /\ \E o \in {"ok", "exc", "kbi"} :
         IF o = "ok"
         THEN /\ \E b \in CoilBlocks :
                   /\ raw' = [bits |-> b, registers |-> NoFrame]
                   /\ pending' = DecodeCoils(b)
              /\ pc' = "read_holding_registers"
              /\ UNCHANGED exitVars
         ELSE /\ Raise(o, MsgGetControls)
              /\ UNCHANGED << raw, pending >>
    /\ UNCHANGED << argvOk, net, clientBound, enBound, linkVars, engineVars,
                    cycle, idx, controls, data, ops, wireVars, released >>

\* [i / 100.0 for i in client.read_holding_registers(0, 100).registers]
get_controls_read_holding_registers ==
    /\ pc = "read_holding_registers"
    /\ \E o \in {"ok", "exc", "kbi"} :
         IF o = "ok"
         THEN /\ \E r \in RegBlocks :
                   /\ raw' = [raw EXCEPT !.registers = r]
                   /\ controls' = [pipe_statuses |-> pending,
                                   pump_settings |-> DecodeRegisters(r)]
              /\ pc' = After("get_controls")
              /\ idx' = 0
              /\ UNCHANGED exitVars
         ELSE /\ Raise(o, MsgGetControls)
              /\ UNCHANGED << raw, controls, idx >>
    /\ pending' = NoFrame
    /\ UNCHANGED << argvOk, net, clientBound, enBound, linkVars, engineVars,
                    cycle, data, ops, wireVars, released >>

\* zip(indices, values): as many pairs as the shorter of the two
Zip(count, values) == Min(count, Len(values))

\* for i, status in zip(en.getLinkPipeIndex(), controls['pipe_statuses'])
set_controls_setLinkStatus ==
    /\ pc = "setLinkStatus"
    /\ IF idx < Zip(net.pipes, controls.pipe_statuses)
       THEN \E o \in {"ok", "exc", "kbi"} :
              IF o = "ok"
              THEN /\ pipeSet' = [pipeSet EXCEPT ![idx + 1] =
                                    [v |-> controls.pipe_statuses[idx + 1], c |-> cycle]]
                   /\ ops' = [ops EXCEPT !.ctl = @ + 1]
                   /\ idx' = idx + 1
                   /\ UNCHANGED << pc, exitVars >>
              ELSE /\ Raise(o, MsgSetControls)
                   /\ UNCHANGED << pipeSet, ops, idx >>
       ELSE /\ pc' = "setLinkSettings"
            /\ idx' = 0
            /\ UNCHANGED << pipeSet, ops, exitVars >>
    /\ UNCHANGED << argvOk, net, clientBound, enBound, linkVars, analysis,
                    duration, simTime, pumpSet, solved, cycle, frameVars,
                    wireVars, released >>

\* for i, setting in zip(en.getLinkPumpIndex(), controls['pump_settings'])
set_controls_setLinkSettings ==
    /\ pc = "setLinkSettings"
    /\ IF idx < Zip(net.pumps, controls.pump_settings)
       THEN \E o \in {"ok", "exc", "kbi"} :
              IF o = "ok"
              THEN /\ pumpSet' = [pumpSet EXCEPT ![idx + 1] =
                                    [v |-> controls.pump_settings[idx + 1], c |-> cycle]]
                   /\ ops' = [ops EXCEPT !.ctl = @ + 1]
                   /\ idx' = idx + 1
                   /\ UNCHANGED << pc, exitVars >>
              ELSE /\ Raise(o, MsgSetControls)
                   /\ UNCHANGED << pumpSet, ops, idx >>
       ELSE /\ pc' = After("set_controls")
            /\ idx' = 0
            /\ UNCHANGED << pumpSet, ops, exitVars >>
    /\ UNCHANGED << argvOk, net, clientBound, enBound, linkVars, analysis,
                    duration, simTime, pipeSet, solved, cycle, frameVars,
                    wireVars, released >>

runHydraulicAnalysis ==
    /\ pc = "runHydraulicAnalysis"
    /\ \E o \in {"ok", "exc", "kbi"} :
         IF o = "ok"
         THEN /\ solved' = cycle
              /\ ops' = [ops EXCEPT !.step = @ + 1]
              /\ pc' = After("runHydraulicAnalysis")
              /\ UNCHANGED exitVars
         ELSE /\ Raise(o, MsgUnexpected)
              /\ UNCHANGED << solved, ops >>
    /\ UNCHANGED << argvOk, net, clientBound, enBound, linkVars, analysis,
                    duration, simTime, pipeSet, pumpSet, cycle, idx,
                    frameVars, wireVars, released >>

\* the three list comprehensions over the engine's measurements
ReadFrame(n, c) ==
    [junction_pressures |-> [i \in 1..n.junctions |-> Measurement("junction", i - 1, c)],
     tank_heads |-> [i \in 1..n.tanks |-> Measurement("tank", i - 1, c)],
     pump_flows |-> [i \in 1..n.pumps |-> Measurement("pump", i - 1, c)]]

read_data ==
    /\ pc = "read_data"
    /\ \E o \in {"ok", "exc", "kbi"} :
         IF o = "ok"
         THEN /\ data' = ReadFrame(net, solved)
              /\ ops' = [ops EXCEPT !.tread = @ + 1]
              /\ pc' = After("read_data")
              /\ idx' = 0
              /\ UNCHANGED exitVars
         ELSE /\ Raise(o, MsgReadData)
              /\ UNCHANGED << data, ops, idx >>
    /\ UNCHANGED << argvOk, net, clientBound, enBound, linkVars, engineVars,
                    cycle, raw, pending, controls, wireVars, released >>

\* client.write_registers(address, convert_to_registers(value, FLOAT32))
WriteRegisters(r, address, value) ==
    [a \in DOMAIN r |->
        IF a = address THEN ConvertToRegisters(value)[1]
        ELSE IF a = address + 1 THEN ConvertToRegisters(value)[2]
        ELSE r[a]]

\* one of write_data's three loops: for i, value in enumerate(values)
WriteLoop(here, class, values, next) ==
    /\ pc = here
    /\ IF idx < Len(values)
       THEN \E o \in {"ok", "exc", "kbi"} :
              IF o = "ok"
              THEN /\ regs' = WriteRegisters(regs, ClassAddress(class, idx), values[idx + 1])
                   /\ wrote' = [wrote EXCEPT ![class] = @ \cup Pair(ClassAddress(class, idx))]
                   /\ ops' = [ops EXCEPT !.twrite = @ + 1]
                   /\ idx' = idx + 1
                   /\ UNCHANGED << pc, exitVars >>
              ELSE /\ Raise(o, MsgWriteData)
                   /\ UNCHANGED << regs, wrote, ops, idx >>
       ELSE /\ pc' = next
            /\ idx' = 0
            /\ UNCHANGED << regs, wrote, ops, exitVars >>
    /\ UNCHANGED << argvOk, net, clientBound, enBound, linkVars, engineVars,
                    cycle, frameVars, released >>

write_data_junction_pressures ==
    WriteLoop("write_registers.junction", "junction", data.junction_pressures,
              "write_registers.tank")

write_data_tank_heads ==
    WriteLoop("write_registers.tank", "tank", data.tank_heads,
              "write_registers.pump")

write_data_pump_flows ==
    WriteLoop("write_registers.pump", "pump", data.pump_flows,
              After("write_data"))

nextHydraulicAnalysisStep ==
    /\ pc = "nextHydraulicAnalysisStep"
    /\ \E o \in {"ok", "exc", "kbi"} :
         IF o = "ok"
         THEN /\ simTime' = simTime + Min(HydraulicStep, duration - simTime)
              /\ pc' = After("nextHydraulicAnalysisStep")
              /\ UNCHANGED exitVars
         ELSE /\ Raise(o, MsgUnexpected)
              /\ UNCHANGED simTime
    /\ UNCHANGED << argvOk, net, clientBound, enBound, linkVars, analysis,
                    duration, pipeSet, pumpSet, solved, cycle, idx, frameVars,
                    ops, wireVars, released >>

\* time.sleep(1): the pacing sleep between two cycles
sleep ==
    /\ pc = "time.sleep"
    /\ \E o \in {"ok", "kbi"} :
         IF o = "ok"
         THEN /\ pc' = After("time.sleep")
              /\ UNCHANGED exitVars
         ELSE Raise(o, MsgUnexpected)
    /\ UNCHANGED << argvOk, net, clientBound, enBound, linkVars, engineVars,
                    cycle, idx, frameVars, ops, wireVars, released >>

(***************************************************************************)
(* Draining: main's finally block.                                         *)
(***************************************************************************)
\* if 'client' in locals(): client.close()
finally_close ==
    /\ pc = "client.close"
    /\ released' = [released EXCEPT !.close = @ + 1]
    /\ \E o \in {"ok", "exc", "kbi"} :
         IF o = "ok"
         THEN /\ link' = "Disconnected"
              /\ pc' = Finally(FALSE, enBound)
              /\ UNCHANGED exitVars
         ELSE /\ RaiseInFinally(o)
              /\ UNCHANGED link
    /\ UNCHANGED << argvOk, net, clientBound, enBound, connectAttempts,
                    connectFails, backoffs, lastConnect, engineVars, cycle,
                    idx, frameVars, ops, wireVars >>

\* if 'en' in locals(): en.closeHydraulicAnalysis()
finally_closeHydraulicAnalysis ==
    /\ pc = "closeHydraulicAnalysis"
    /\ released' = [released EXCEPT !.closeH = @ + 1]
    /\ \E o \in {"ok", "exc", "kbi"} :
         IF o = "ok"
         THEN /\ analysis' = "closed"
              /\ pc' = "unload"
              /\ UNCHANGED exitVars
         ELSE /\ RaiseInFinally(o)
              /\ UNCHANGED analysis
    /\ UNCHANGED << argvOk, net, clientBound, enBound, linkVars, duration,
                    simTime, pipeSet, pumpSet, solved, cycle, idx, frameVars,
                    ops, wireVars >>

\* en.unload()
finally_unload ==
    /\ pc = "unload"
    /\ released' = [released EXCEPT !.unload = @ + 1]
    /\ \E o \in {"ok", "exc", "kbi"} :
         IF o = "ok"
         THEN /\ pc' = "stopped"
              /\ UNCHANGED exitVars
         ELSE RaiseInFinally(o)
    /\ UNCHANGED << argvOk, net, clientBound, enBound, linkVars, engineVars,
                    cycle, idx, frameVars, ops, wireVars >>

Next ==
    \/ parse_arguments
    \/ setup_client_connect
    \/ setup_client_backoff
    \/ setup_epanet
    \/ print_overview
    \/ openHydraulicAnalysis
    \/ initializeHydraulicAnalysis
    \/ setTimeSimulationDuration
    \/ get_controls_read_coils
    \/ get_controls_read_holding_registers
    \/ set_controls_setLinkStatus
    \/ set_controls_setLinkSettings
    \/ runHydraulicAnalysis
    \/ read_data
    \/ write_data_junction_pressures
    \/ write_data_tank_heads
    \/ write_data_pump_flows
    \/ nextHydraulicAnalysisStep
    \/ sleep
    \/ finally_close
    \/ finally_closeHydraulicAnalysis
    \/ finally_unload

Spec == Init /\ [][Next]_vars

(***************************************************************************)
(* The register map on its own: write_data applied, in the first cycle, to *)
(* networks of every size around the block boundaries.  MapInit is the     *)
(* state main() is in when the first cycle's read_data has returned.       *)
(***************************************************************************)
MaxAssets == CoilCount

MapNetworks ==
    { [junctions |-> j, tanks |-> t, pumps |-> p, pipes |-> 1] :
        j \in {0, 1, 50, 51, MaxAssets},
        t \in {0, 1, 50, 51, MaxAssets},
        p \in {0, 1, MaxAssets} }

MapInit ==
    /\ pc = Entry("write_data")
    /\ argvOk = TRUE
    /\ net \in MapNetworks
    /\ clientBound = TRUE
    /\ enBound = TRUE
    /\ link = "Connected"
    /\ connectAttempts = 1
    /\ connectFails = 0
    /\ backoffs = 0
    /\ lastConnect = "true"
    /\ analysis = "init"
    /\ duration = InitialDuration + HydraulicStep
    /\ simTime = 0
    /\ cycle = 1
    /\ idx = 0
    /\ raw = [bits |-> CoilBlock("zeros", CoilBits(CoilCount)),
              registers |-> RegBlock("alt", RegCount)]
    /\ pending = NoFrame
    /\ controls = [pipe_statuses |-> DecodeCoils(raw.bits),
                   pump_settings |-> DecodeRegisters(raw.registers)]
    /\ data = ReadFrame(net, 1)
    /\ pipeSet = [k \in 1..net.pipes |-> [v |-> controls.pipe_statuses[k], c |-> 1]]
    /\ pumpSet = [k \in 1..net.pumps |-> [v |-> controls.pump_settings[k], c |-> 1]]
    /\ solved = 1
    /\ ops = [ctl |-> net.pipes + net.pumps, step |-> 1, tread |-> 1, twrite |-> 0]
    /\ regs = [a \in Addresses(net) |-> 0]
    /\ wrote = [junction |-> {}, tank |-> {}, pump |-> {}]
    /\ exitCode = NoExit
    /\ out = << >>
    /\ raisedAt = "none"
    /\ raised = "none"
    /\ released = [close |-> 0, closeH |-> 0, unload |-> 0]

MapNext ==
    \/ write_data_junction_pressures
    \/ write_data_tank_heads
    \/ write_data_pump_flows

SpecMap == MapInit /\ [][MapNext]_vars

(***************************************************************************)
(* Vocabulary of the properties.                                           *)
(***************************************************************************)
DrainingPcs == {"client.close", "closeHydraulicAnalysis", "unload"}

Printed(m) == \E i \in DOMAIN out : out[i] = m

Interrupted == Printed(MsgInterrupted)

GetControlsFailed == Printed(MsgGetControls)

\* the control writes set_controls makes for the frame it was given
ControlWrites == Zip(net.pipes, controls.pipe_statuses) + Zip(net.pumps, controls.pump_settings)

(***************************************************************************)
(* C1.  In every Running cycle the hydraulic step runs only when every     *)
(* control write of that cycle (each setLinkStatus and setLinkSettings of  *)
(* set_controls) has been made, no control write follows it, and the       *)
(* telemetry read of that cycle happens only after that one step.          *)
(***************************************************************************)
C1_CycleOrdering ==
    /\ ops.step > 0 => ops.ctl = ControlWrites
    /\ ops.tread > 0 => ops.step = 1
    /\ ops.step <= 1

C1_Witness ==
    /\ cycle = 2
    /\ pc = "time.sleep"
    /\ ops = [ctl |-> 4, step |-> 1, tread |-> 1, twrite |-> 4]

(***************************************************************************)
(* C2.  When a control read (coils or holding registers) raises during     *)
(* Running, the very next state is Draining, in the same cycle; from then  *)
(* on no engine control is set, no step is run, no register is written and *)
(* no cycle starts, and the process stops with a non-zero exit status.     *)
(***************************************************************************)
C2_ReadFailureDrains ==
    [][ /\ (GetControlsFailed' /\ ~GetControlsFailed) =>
              /\ pc \in {"read_coils", "read_holding_registers"}
              /\ pc' \in DrainingPcs
              /\ UNCHANGED << pipeSet, pumpSet, solved, ops, regs, wrote, cycle >>
        /\ GetControlsFailed =>
              /\ pc' \in DrainingPcs \cup {"stopped"}
              /\ UNCHANGED << pipeSet, pumpSet, solved, ops, regs, wrote, cycle >>
        /\ (GetControlsFailed' /\ pc' = "stopped") => exitCode' \notin {0, NoExit}
      ]_vars

C2_Witness ==
    /\ pc = "stopped"
    /\ GetControlsFailed
    /\ raisedAt = "read_holding_registers"
    /\ cycle = 2
    /\ exitCode = HelperExitStatus
    /\ released = [close |-> 1, closeH |-> 1, unload |-> 1]

(***************************************************************************)
(* C3.  An interrupt delivered during the pacing sleep ends the process    *)
(* with exit status 0, with client.close() and closeHydraulicAnalysis()    *)
(* each invoked exactly once.                                              *)
(***************************************************************************)
C3_InterruptBetweenCycles ==
    (pc = "stopped" /\ Interrupted /\ raisedAt = "time.sleep") =>
        /\ exitCode = 0
        /\ released.close = 1
        /\ released.closeH = 1

(***************************************************************************)
(* C4.  setup_client against an endpoint whose first k connect() calls     *)
(* return False and whose next one returns True: it returns after exactly  *)
(* k + 1 attempts and k completed backoff sleeps, with the link Connected; *)
(* every False is followed by a sleep and another attempt, never by an     *)
(* exit: the process leaves the retry loop early only when connect()       *)
(* itself raises or an interrupt arrives.                                  *)
(***************************************************************************)
C4_ConnectRetries ==
    /\ clientBound =>
          /\ lastConnect = "true"
          /\ connectAttempts = connectFails + 1
          /\ backoffs = connectFails
    /\ pc = "setup_epanet" => link = "Connected"
    /\ pc = "client.connect" =>
          /\ connectAttempts = connectFails
          /\ backoffs = connectFails
    /\ pc = "time.sleep.backoff" =>
          /\ lastConnect = "false"
          /\ connectAttempts = connectFails
          /\ backoffs = connectFails - 1
    /\ lastConnect = "false" => raisedAt \in {"none", "time.sleep.backoff"}
    /\ raisedAt = "time.sleep.backoff" => Interrupted
    /\ Printed(MsgSetupClient) => lastConnect = "exc"

C4_Witness ==
    /\ pc = "setup_epanet"
    /\ connectFails = 2
    /\ connectAttempts = 3
    /\ backoffs = 2
    /\ exitCode = NoExit

(***************************************************************************)
(* C5.  Draining runs to completion: whenever the engine was loaded its    *)
(* release is attempted even if client.close() raised, nothing raised in   *)
(* Draining escapes, and Draining does not change the exit status that     *)
(* was decided before it.                                                  *)
(***************************************************************************)
C5_DrainingCompletes ==
    [][ /\ pc \in DrainingPcs => exitCode' = exitCode
        /\ (pc' = "stopped" /\ enBound') => released'.closeH >= 1
        /\ ~Printed(MsgTraceback)'
      ]_vars

(***************************************************************************)
(* C6.  In every execution that reaches Stopped the exit status is 0 if    *)
(* and only if the run was ended by a user interrupt.                      *)
(***************************************************************************)
C6_ExitStatus ==
    pc = "stopped" => (exitCode = 0 <=> Interrupted)

(***************************************************************************)
(* C7.  The addresses written for junction pressures, tank heads and pump  *)
(* flows are pairwise disjoint and none lies in the pump-setting block     *)
(* 0..RegCount-1.  C7_NoOverlap states it for every network of at most     *)
(* MaxAssets assets per class; C7_NoOverlapWithinSlots for every network   *)
(* of at most as many junctions as fit below the tank base, as many tanks  *)
(* as fit below the pump base, and MaxAssets pumps.                        *)
(***************************************************************************)
JunctionSlots == (TankBase - JunctionBase) \div Stride
TankSlots == (PumpBase - TankBase) \div Stride

Disjoint ==
    /\ wrote.junction \cap wrote.tank = {}
    /\ wrote.junction \cap wrote.pump = {}
    /\ wrote.tank \cap wrote.pump = {}
    /\ (wrote.junction \cup wrote.tank \cup wrote.pump) \cap (0..(RegCount - 1)) = {}

\* C7 as claimed: no overlap for up to MaxAssets assets of every class
C7_NoOverlap ==
    (net.junctions <= MaxAssets /\ net.tanks <= MaxAssets /\ net.pumps <= MaxAssets)
        => Disjoint

\* C7 within the slots the bases leave: no overlap for up to JunctionSlots
\* junctions, TankSlots tanks and MaxAssets pumps
C7_NoOverlapWithinSlots ==
    (net.junctions <= JunctionSlots /\ net.tanks <= TankSlots /\ net.pumps <= MaxAssets)
        => Disjoint

C7_Witness ==
    /\ net = [junctions |-> JunctionSlots, tanks |-> TankSlots, pumps |-> MaxAssets, pipes |-> 1]
    /\ pc = After("write_data")
    /\ Cardinality(wrote.junction) = Stride * JunctionSlots
    /\ Cardinality(wrote.tank) = Stride * TankSlots
    /\ Cardinality(wrote.pump) = Stride * MaxAssets

(***************************************************************************)
(* C8.  Every decoded pipe status is the negation of its coil bit and      *)
(* every decoded pump setting is raw/100 of its register, position by      *)
(* position: bits [1,0] give [0,1], an all-zero block gives all 1 (open),  *)
(* registers [150,50] give [1.5,0.5].                                      *)
(***************************************************************************)
StatusesDecode(statuses, bits) ==
    /\ Len(statuses) = Len(bits)
    /\ \A i \in 1..Len(bits) : statuses[i] + bits[i] = 1

SettingsDecode(settings, registers) ==
    /\ Len(settings) = Len(registers)
    /\ \A i \in 1..Len(registers) :
          /\ settings[i].whole * 100 + settings[i].hundredths = registers[i]
          /\ settings[i].hundredths \in 0..99
          /\ registers[i] = 150 => settings[i] = [whole |-> 1, hundredths |-> 50]
          /\ registers[i] = 50 => settings[i] = [whole |-> 0, hundredths |-> 50]

C8_ControlDecoding ==
    /\ pending # NoFrame => StatusesDecode(pending, raw.bits)
    /\ raw.registers # NoFrame =>
          /\ StatusesDecode(controls.pipe_statuses, raw.bits)
          /\ SettingsDecode(controls.pump_settings, raw.registers)

C8_Witness ==
    /\ pc = "setLinkStatus"
    /\ Len(raw.bits) = CoilBits(CoilCount)
    /\ Len(raw.registers) = RegCount
    /\ raw.bits[1] = 1 /\ raw.bits[2] = 0
    /\ controls.pipe_statuses[1] = 0 /\ controls.pipe_statuses[2] = 1
    /\ raw.registers[1] = 150 /\ raw.registers[2] = 50
    /\ controls.pump_settings[1] = [whole |-> 1, hundredths |-> 50]
    /\ controls.pump_settings[2] = [whole |-> 0, hundredths |-> 50]

(***************************************************************************)
(* C9.  No step is executed with a pipe or a pump left without a value     *)
(* from this cycle's frame: a frame shorter than the asset count stops the *)
(* run before the step.                                                    *)
(***************************************************************************)
C9_ShortFrameIsFatal ==
    ops.step > 0 =>
        /\ \A k \in 1..net.pipes : pipeSet[k].c = cycle
        /\ \A k \in 1..net.pumps : pumpSet[k].c = cycle

(***************************************************************************)
(* C10.  C10_Cooperative: an interrupt is acted upon in Running only at a  *)
(* cycle boundary (the pacing sleep, or the first statement of the next    *)
(* cycle).  C10_InterruptAborts: an interrupt is acted upon at whichever   *)
(* call it arrives in; that call is abandoned, the next state is Draining  *)
(* with exit status 0 pending, and nothing more of the cycle is executed.  *)
(***************************************************************************)
\* C10 as claimed: in Running an interrupt is acted upon only at a cycle
\* boundary
C10_Cooperative ==
    (Interrupted /\ cycle > 0) =>
        raisedAt \in {"time.sleep", "setTimeSimulationDuration"}

\* C10 as amended: the interrupt abandons the call it arrives in and the
\* rest of the cycle, and leads straight to Draining with status 0 pending
C10_InterruptAborts ==
    [][ /\ (Interrupted' /\ ~Interrupted) =>
              /\ raisedAt' = pc
              /\ pc' = Finally(clientBound, enBound)
              /\ exitCode' = 0
              /\ UNCHANGED << pipeSet, pumpSet, solved, data, controls, regs, wrote, idx >>
              /\ cycle' = cycle => ops' = ops
        /\ Interrupted =>
              /\ pc' \in DrainingPcs \cup {"stopped"}
              /\ UNCHANGED << pipeSet, pumpSet, solved, data, controls, regs, wrote, ops, cycle >>
      ]_vars

C10_Witness ==
    /\ pc = "stopped"
    /\ Interrupted
    /\ raisedAt = "write_registers.junction"
    /\ net.junctions = 51
    /\ ops.twrite = 1
    /\ exitCode = 0

(***************************************************************************)
(* C11.  A failure during Starting (the connect call raising, the network  *)
(* file failing to load, the startup summary failing, the analysis failing *)
(* to open or to initialize) is fatal: its cause is printed first, the     *)
(* process goes to Draining and stops with a non-zero status, and no       *)
(* cycle is ever started: no control read, no step, no register write.     *)
(***************************************************************************)
StartingCalls ==
    {"client.connect", "setup_epanet", "print_overview",
     "openHydraulicAnalysis", "initializeHydraulicAnalysis"}

C11_StartingFailureIsFatal ==
    (raised = "exc" /\ raisedAt \in StartingCalls) =>
        /\ pc \in DrainingPcs \cup {"stopped"}
        /\ Len(out) >= 1
        /\ out[1] \in {MsgSetupClient, MsgSetupEpanet, MsgOverview, MsgUnexpected}
        /\ exitCode \notin {0, NoExit}
        /\ cycle = 0
        /\ ops = NoOps
        /\ raw = [bits |-> NoFrame, registers |-> NoFrame]
        /\ solved = 0
        /\ wrote = [junction |-> {}, tank |-> {}, pump |-> {}]

C11_Witness ==
    /\ pc = "stopped"
    /\ raised = "exc"
    /\ raisedAt = "openHydraulicAnalysis"
    /\ out = << MsgUnexpected >>
    /\ exitCode = MainExitStatus
    /\ released = [close |-> 1, closeH |-> 1, unload |-> 1]

(***************************************************************************)
(* C12.  On every path to Stopped exactly the message matching the cause   *)
(* that terminated the process has been printed, and nothing else: the     *)
(* usage line for bad arguments, the user-stop line for an interrupt, the  *)
(* failing helper's line for a helper failure, the unexpected-error line   *)
(* for a failure of a call main makes itself.                              *)
(***************************************************************************)
ExpectedMessage(at, kind) ==
    CASE kind = "usage" -> MsgUsage
      [] kind = "kbi" -> MsgInterrupted
      [] kind = "exc" /\ at = "client.connect" -> MsgSetupClient
      [] kind = "exc" /\ at = "setup_epanet" -> MsgSetupEpanet
      [] kind = "exc" /\ at = "print_overview" -> MsgOverview
      [] kind = "exc" /\ at \in {"read_coils", "read_holding_registers"} -> MsgGetControls
      [] kind = "exc" /\ at \in {"setLinkStatus", "setLinkSettings"} -> MsgSetControls
      [] kind = "exc" /\ at = "read_data" -> MsgReadData
      [] kind = "exc" /\ at \in {"write_registers.junction", "write_registers.tank",
                                 "write_registers.pump"} -> MsgWriteData
      [] OTHER -> MsgUnexpected

C12_ExactlyTheMatchingMessage ==
    pc = "stopped" => out = << ExpectedMessage(raisedAt, raised) >>

\* what the code does keep: the first line printed is the one matching what
\* ended the try block, and only the interpreter's traceback can follow it
C12_FirstMessageMatches ==
    pc = "stopped" =>
        /\ raised # "none"
        /\ Len(out) \in {1, 2}
        /\ out[1] = ExpectedMessage(raisedAt, raised)
        /\ Len(out) = 2 => out[2] = MsgTraceback /\ exitCode \in {TracebackStatus, SigintStatus}

(***************************************************************************)
(* C13.  An error raised by any call of a Running cycle (control read,     *)
(* control apply, step, telemetry read, telemetry write) ends the cycle    *)
(* and the run: the raising call leaves the engine, the registers and the  *)
(* cycle counters as they were, the next state is the first call of        *)
(* Draining with a non-zero status pending, and from then on no control is *)
(* read or applied, nothing is solved, stepped, read or written and no     *)
(* cycle is started.  A write failure is handled as a read failure is.     *)
(***************************************************************************)
CycleCalls ==
    {"setTimeSimulationDuration", "read_coils", "read_holding_registers",
     "setLinkStatus", "setLinkSettings", "runHydraulicAnalysis", "read_data",
     "write_registers.junction", "write_registers.tank", "write_registers.pump",
     "nextHydraulicAnalysisStep"}

CycleEffects ==
    << cycle, ops, duration, simTime, pipeSet, pumpSet, solved, raw, controls,
       data, regs, wrote, connectAttempts >>

C13_CycleErrorAbortsRun ==
    [][ /\ (pc \in CycleCalls /\ raised = "none" /\ raised' = "exc") =>
              /\ pc' = "client.close"
              /\ exitCode' \in {HelperExitStatus, MainExitStatus}
              /\ exitCode' # 0
              \* the iteration counts as started once its first call is made
              /\ pc # "setTimeSimulationDuration" => UNCHANGED CycleEffects
        /\ (raised = "exc" /\ raisedAt \in CycleCalls) =>
              /\ pc' \in DrainingPcs \cup {"stopped"}
              /\ UNCHANGED CycleEffects
      ]_vars

\* a telemetry write failed half way through the second cycle and the run
\* ended there: the pump flows were never written, no step was taken
C13_Witness ==
    /\ pc = "stopped"
    /\ raised = "exc"
    /\ raisedAt = "write_registers.tank"
    /\ cycle = 2
    /\ out = << MsgWriteData >>
    /\ exitCode = HelperExitStatus
    /\ wrote.junction # {}
    /\ ops.step = 1
    /\ simTime = HydraulicStep

(***************************************************************************)
(* C14.  Draining releases only what was acquired: the link is closed only *)
(* if setup_client had returned it, and closeHydraulicAnalysis is called   *)
(* if and only if the analysis had been opened and initialized; after a    *)
(* failure between loading the network and opening the analysis the        *)
(* analysis is not closed.                                                 *)
(***************************************************************************)
C14_ReleasesOnlyWhatWasAcquired ==
    /\ released.close > 0 => clientBound
    /\ pc = "closeHydraulicAnalysis" => analysis = "init"
    /\ (pc = "stopped" /\ analysis = "init") => released.closeH = 1

\* what the finally block goes by: the names bound in main, not the state
\* of the analysis
C14_ReleasesWhatIsBound ==
    /\ released.close > 0 => clientBound
    /\ (pc \in {"closeHydraulicAnalysis", "unload"} \/ released.closeH > 0) => enBound
    /\ (pc = "closeHydraulicAnalysis" /\ raisedAt \in {"print_overview", "openHydraulicAnalysis"})
          => analysis = "none"

(***************************************************************************)
(* C15.  When write_data has returned, the register pair at 100 + 2k holds *)
(* the FLOAT32 registers of junction k's pressure, the pair at 200 + 2k    *)
(* those of tank k's head and the pair at 300 + 2k those of pump k's flow, *)
(* all as solved in this cycle, for every network of up to 100 junctions,  *)
(* tanks and pumps.                                                        *)
(***************************************************************************)
ClassCount(n, class) ==
    CASE class = "junction" -> n.junctions
      [] class = "tank" -> n.tanks
      [] class = "pump" -> n.pumps

Holds(class, k) ==
    << regs[ClassAddress(class, k)], regs[ClassAddress(class, k) + 1] >>
        = ConvertToRegisters(Measurement(class, k, solved))

TelemetryOnTheWire ==
    \A class \in {"junction", "tank", "pump"} :
        \A k \in 0..(ClassCount(net, class) - 1) : Holds(class, k)

C15_TelemetryAtItsAddress ==
    (pc = After("write_data") /\ solved = cycle) => TelemetryOnTheWire

\* what the code does keep: the frame is on the wire whenever the junctions
\* and the tanks fit the 50 pairs between two base addresses
C15_TelemetryWithinSlots ==
    (pc = After("write_data") /\ solved = cycle
        /\ net.junctions <= JunctionSlots /\ net.tanks <= TankSlots)
      => TelemetryOnTheWire

(***************************************************************************)
(* C16.  Each completed cycle solves once and advances the engine by one   *)
(* hydraulic step, and the duration is extended by one hydraulic step      *)
(* before each solve: at every solve the duration exceeds the elapsed time *)
(* by the initial duration plus one step, at the end of every cycle by the *)
(* initial duration, so the gap never shrinks however many cycles run, and *)
(* the loop is left only by something raised.                              *)
(***************************************************************************)
C16_OneStepPerCycle ==
    /\ pc = "runHydraulicAnalysis" =>
          /\ ops.step = 0
          /\ simTime = (cycle - 1) * HydraulicStep
          /\ duration = InitialDuration + cycle * HydraulicStep
          /\ duration > simTime
    /\ pc = "time.sleep" =>
          /\ ops.step = 1
          /\ solved = cycle
          /\ simTime = cycle * HydraulicStep
          /\ duration - simTime = InitialDuration
    /\ pc \in DrainingPcs \cup {"stopped"} => raised # "none"

C16_Witness ==
    /\ pc = "time.sleep"
    /\ cycle = MaxCycles
    /\ ops.step = 1
    /\ simTime = MaxCycles * HydraulicStep
    /\ duration = InitialDuration + MaxCycles * HydraulicStep
    /\ raised = "none"

(***************************************************************************)
(* C17.  There is no implicit reconnect: connect is called only by         *)
(* setup_client, before the engine is loaded and before any cycle; once    *)
(* connect has returned True it is never called again; and a read or a     *)
(* write that raises is not repeated: the next call made is the close of   *)
(* Draining, and the link is never connected again.                        *)
(***************************************************************************)
LinkCalls ==
    {"read_coils", "read_holding_registers", "write_registers.junction",
     "write_registers.tank", "write_registers.pump"}

C17_NoImplicitReconnect ==
    [][ /\ connectAttempts' # connectAttempts =>
              /\ pc = "client.connect"
              /\ lastConnect # "true"
              /\ ~enBound
              /\ cycle = 0
              /\ raised = "none"
        /\ (pc \in LinkCalls /\ raised = "none" /\ raised' = "exc") =>
              /\ pc' = "client.close"
              /\ UNCHANGED << raw, regs, wrote, link >>
        /\ (link # "Connected" /\ link' = "Connected") => pc = "client.connect"
      ]_vars

\* connect failed once and then succeeded; in the second cycle a read failed
\* and the run ended with the link closed and no third connect
C17_Witness ==
    /\ pc = "stopped"
    /\ raised = "exc"
    /\ raisedAt = "read_holding_registers"
    /\ cycle = 2
    /\ connectFails = 1
    /\ connectAttempts = 2
    /\ link = "Disconnected"
    /\ released.close = 1

(***************************************************************************)
(* C18.  Once setup_client has returned the client, every path to process  *)
(* exit calls close() on it exactly once, and before any call that         *)
(* releases the engine; a process that exits before setup_client returns   *)
(* (bad arguments, connect raising, an interrupt in the retry loop) calls  *)
(* neither close() nor any engine release.                                 *)
(***************************************************************************)
BeforeClientCalls == {"parse_arguments", "client.connect", "time.sleep.backoff"}

C18_CloseOnceBeforeEngineRelease ==
    /\ released.close <= 1
    /\ (pc = "stopped" /\ clientBound) => released.close = 1
    /\ (pc \in {"closeHydraulicAnalysis", "unload"}
          \/ released.closeH > 0 \/ released.unload > 0) => released.close = 1
    /\ ~clientBound => released = [close |-> 0, closeH |-> 0, unload |-> 0]
    /\ (pc = "stopped" /\ raisedAt \in BeforeClientCalls) =>
          /\ ~clientBound
          /\ released = [close |-> 0, closeH |-> 0, unload |-> 0]
    /\ (pc = "stopped" /\ raisedAt \notin BeforeClientCalls) => clientBound

\* an interrupt in the pacing sleep of the second cycle: close, then the two
\* engine releases, once each
C18_Witness ==
    /\ pc = "stopped"
    /\ raised = "kbi"
    /\ raisedAt = "time.sleep"
    /\ clientBound
    /\ released = [close |-> 1, closeH |-> 1, unload |-> 1]
    /\ link = "Disconnected"
    /\ exitCode = InterruptExitStatus

====
